---- MODULE Spec2Model ----
(***************************************************************************)
(* A model of sarpy/io/complex/bip.py: the BIPChipper reader and the      *)
(* BIPWriter writer for Band-Interleaved-by-Pixel raster files, with the   *)
(* memory-mapped backend and the manual seek/read/write backend.            *)
(*                                                                         *)
(* A file is a sequence of byte cells.  The byte number k of the encoding  *)
(* of a scalar v is the cell <<v, k>>, so an element read back is equal to *)
(* an element written exactly when every one of its bytes comes from the   *)
(* same scalar at the same place; the bytes the file held before any write *)
(* are pairwise distinct cells <<-(a+1), 0>>.                               *)
(***************************************************************************)
EXTENDS Integers, Sequences, FiniteSets, TLC

VARIABLES
    desc,       \* the raster descriptor the collaborators supply
    req,        \* the window (range1, range2) the caller reads
    wreq,       \* the array and the start indices the caller writes
    file,       \* the bytes of the file on disk
    w,          \* the BIPWriter instance
    c,          \* the BIPChipper instance
    out,        \* the outcome of the last call
    ncalls,     \* number of write calls made so far
    warnings,   \* logging.warning calls, per instance
    errors,     \* logging.error calls
    closes,     \* calls of close() on an open file handle, per instance
    closeCalled,\* the writer's close() has been called (by the caller or __exit__)
    w2,         \* a second BIPWriter instance on the same file
    wreq2,      \* the array and the start indices the second writer writes
    ops         \* per writer: the seeks and writes of a call in progress

vars == <<desc, req, wreq, file, w, c, out, ncalls, warnings, errors, closes,
          closeCalled, w2, wreq2, ops>>

\* What belongs to the second writer and to calls in progress.
concVars == <<w2, wreq2, ops>>

\* ---------------------------------------------------------------- bounds
MaxDim == 2
MaxOffset == 1
MaxCalls == 2

\* ------------------------------------------------------- numpy: dtypes
itemsize(dt) ==
    CASE dt = "uint8" -> 1
      [] dt = "int16" -> 2
      [] dt = "float32" -> 4
      [] dt = "float64" -> 8
      [] dt = "complex64" -> 8
      [] dt = "complex128" -> 16

IsComplexDType(dt) == dt \in {"complex64", "complex128"}

Pow2(n) == IF n = 24 THEN 16777216 ELSE IF n = 16 THEN 65536 ELSE 256

\* float64 -> float32 on integer-valued floats: exact below 2^24, rounded to
\* the nearest representable value (ties to even mantissa) in [2^24, 2^25).
F32(v) ==
    LET a == IF v < 0 THEN -v ELSE v
        m == a \div 2
        r == IF a < Pow2(24) \/ a % 2 = 0 THEN a
             ELSE IF m % 2 = 0 THEN 2 * m ELSE 2 * m + 2
    IN IF v < 0 THEN -r ELSE r

\* ndarray.astype on a real scalar
CastScalar(v, dt) ==
    CASE dt = "uint8" -> v % Pow2(8)
      [] dt = "int16" -> ((v + 32768) % Pow2(16)) - 32768
      [] dt = "float32" -> F32(v)
      [] OTHER -> v

\* ------------------------------------------------------ numpy: ndarrays
\* An ndarray is [dtype, shape, flat]: flat holds the scalars in C order; a
\* scalar of a complex dtype is the pair <<re, im>>.
Prod(s) == IF Len(s) = 0 THEN 1
           ELSE IF Len(s) = 1 THEN s[1]
           ELSE IF Len(s) = 2 THEN s[1] * s[2]
           ELSE s[1] * s[2] * s[3]

Re(x, dt) == IF IsComplexDType(dt) THEN x[1] ELSE x
Im(x, dt) == IF IsComplexDType(dt) THEN x[2] ELSE 0

\* data.astype(dt)
AsType(data, dt) ==
    IF data.dtype = dt THEN data
    ELSE [dtype |-> dt, shape |-> data.shape,
          flat |-> [k \in 1..Len(data.flat) |->
                      IF IsComplexDType(dt)
                      THEN <<CastScalar(Re(data.flat[k], data.dtype),
                                        IF dt = "complex64" THEN "float32" ELSE "float64"),
                             CastScalar(Im(data.flat[k], data.dtype),
                                        IF dt = "complex64" THEN "float32" ELSE "float64")>>
                      ELSE CastScalar(Re(data.flat[k], data.dtype), dt)]]

\* data.view(numpy.float32).reshape((rows, cols, 2)) of a complex64 array
ViewFloat32(data) ==
    [dtype |-> "float32", shape |-> <<data.shape[1], data.shape[2], 2>>,
     flat |-> [k \in 1..(2 * Len(data.flat)) |->
                 data.flat[(k + 1) \div 2][IF k % 2 = 1 THEN 1 ELSE 2]]]

\* The callables a caller may supply as complex_type of a writer: each maps
\* complex samples to (real, imaginary) band pairs of its output dtype.
CallableOutDType(ct) == IF ct = "to_int16" THEN "int16" ELSE "float32"

ApplyCallable(ct, data) ==
    LET dt == CallableOutDType(ct)
    IN [dtype |-> dt, shape |-> <<data.shape[1], data.shape[2], 2>>,
        flat |-> [k \in 1..(2 * Len(data.flat)) |->
                    LET x == data.flat[(k + 1) \div 2]
                    IN CastScalar(IF k % 2 = 1 THEN Re(x, data.dtype)
                                  ELSE Im(x, data.dtype), dt)]]

Callables == {"to_int16", "to_float32"}

IsCallable(ct) == ct \in Callables

\* The bytes of an array of a real dtype, as tofile writes them.
ToBytes(arr) ==
    LET isz == itemsize(arr.dtype)
    IN [b \in 1..(Len(arr.flat) * isz) |->
          <<arr.flat[((b - 1) \div isz) + 1], (b - 1) % isz>>]

\* Rows i (0-based) of an array: data[i]
RowOf(data, i) ==
    LET n == Prod(data.shape) \div data.shape[1]
    IN [dtype |-> data.dtype, shape |-> Tail(data.shape),
        flat |-> SubSeq(data.flat, i * n + 1, (i + 1) * n)]

\* ------------------------------------------------------------ the file
ZeroByte == <<0, -1>>

InitialFile(n) == [a \in 1..n |-> <<-a, 0>>]

\* fid.write(bytes) at position pos: the file grows when the write ends past
\* its end, a gap is filled with zero bytes.
WriteAt(f, pos, bytes) ==
    IF Len(bytes) = 0 THEN f
    ELSE LET n == IF pos + Len(bytes) > Len(f) THEN pos + Len(bytes) ELSE Len(f)
         IN [a \in 1..n |->
               IF a > pos /\ a <= pos + Len(bytes) THEN bytes[a - pos]
               ELSE IF a <= Len(f) THEN f[a] ELSE ZeroByte]

\* --------------------------------------------------- python: slicing
Min(a, b) == IF a < b THEN a ELSE b
Max(a, b) == IF a > b THEN a ELSE b

\* The indices of a[start:stop:step] on an axis of length n (slice.indices);
\* hasStop = FALSE is a[start::step].
RECURSIVE SliceFrom(_, _, _)
SliceFrom(i, stop, step) ==
    IF (step > 0 /\ i >= stop) \/ (step < 0 /\ i <= stop) THEN <<>>
    ELSE <<i>> \o SliceFrom(i + step, stop, step)

PySlice(start, hasStop, stop, step, n) ==
    IF step > 0
    THEN LET lo == IF start < 0 THEN Max(start + n, 0) ELSE Min(start, n)
             hi == IF ~hasStop THEN n
                   ELSE IF stop < 0 THEN Max(stop + n, 0) ELSE Min(stop, n)
         IN SliceFrom(lo, hi, step)
    ELSE LET lo == IF start < 0 THEN Max(start + n, -1) ELSE Min(start, n - 1)
             hi == IF ~hasStop THEN -1
                   ELSE IF stop < 0 THEN Max(stop + n, -1) ELSE Min(stop, n - 1)
         IN SliceFrom(lo, hi, step)

\* ------------------------------------------------- numpy.memmap views
\* Byte address (0-based) of element (i, j, b) of a C-ordered view of shape
\* (d0, d1, nb) that starts at byte offset `offset`.
ElementAddress(offset, d1, nb, isz, i, j, b) ==
    offset + ((i * d1 + j) * nb + b) * isz

\* self._memory_map[start1:stop1, start2:stop2, :] = data  (line 297)
MemmapAssign(self, f, start1, stop1, start2, stop2, data) ==
    IF Len(self.shape) # 3
    THEN \* three indices into a 2-dimensional memmap
         [file |-> f, pos |-> self.pos, raised |-> "IndexError", nbytes |-> 0]
    ELSE
    LET d0 == self.shape[1]
        d1 == self.shape[2]
        nb == self.shape[3]
        isz == itemsize(self.data_type)
        I1 == PySlice(start1, TRUE, stop1, 1, d0)
        I2 == PySlice(start2, TRUE, stop2, 1, d1)
        r == data.shape[1]
        cc == data.shape[2]
        dnb == IF Len(data.shape) = 3 THEN data.shape[3] ELSE 1
        fits == /\ (r = Len(I1) \/ r = 1)
                /\ (cc = Len(I2) \/ cc = 1)
                /\ (dnb = nb \/ dnb = 1)
        val == AsType(data, self.data_type)
        At(i, j, b) == val.flat[(((IF r = 1 THEN 0 ELSE i - I1[1]) * cc
                                  + (IF cc = 1 THEN 0 ELSE j - I2[1])) * dnb
                                 + (IF dnb = 1 THEN 0 ELSE b)) + 1]
        InWin(i, j) == /\ Len(I1) > 0 /\ i >= I1[1] /\ i < I1[1] + Len(I1)
                       /\ Len(I2) > 0 /\ j >= I2[1] /\ j < I2[1] + Len(I2)
        Cell(a) == LET rel == (a - 1) - self.data_offset
                       e == rel \div isz
                       pix == e \div nb
                   IN IF rel >= 0 /\ pix < d0 * d1 /\ InWin(pix \div d1, pix % d1)
                      THEN <<At(pix \div d1, pix % d1, e % nb), rel % isz>>
                      ELSE f[a]
    IN IF ~fits
       THEN \* the value cannot be broadcast to the shape of the target
            [file |-> f, pos |-> self.pos, raised |-> "ValueError", nbytes |-> 0]
       ELSE [file |-> [a \in 1..Len(f) |-> Cell(a)], pos |-> self.pos,
             raised |-> "none", nbytes |-> Len(I1) * Len(I2) * nb * isz]

\* ------------------------------------------------------------ BIPWriter
NoWriter ==
    [life |-> "absent", data_size |-> <<>>, data_type |-> "unset",
     complex_type |-> "unset", data_offset |-> 0, shape |-> <<>>,
     memory_map |-> "unset", fid |-> "unset", pos |-> 0,
     scope |-> "out", pending |-> FALSE]

\* AbstractWriter.__init__(file_name) keeps the file name and touches nothing.
AbstractWriter_init == [NoWriter EXCEPT !.life = "failed"]

\* A validation that asks for positive dimensions.
BIPWriter_init_checks_positive(data_size, data_type, complex_type, data_offset) ==
    LET o0 == AbstractWriter_init
        Fail(o, e) == [obj |-> o, raised |-> e]
    IN IF Len(data_size) # 2 THEN Fail(o0, "ValueError")
       ELSE IF data_size[1] <= 0 \/ data_size[2] <= 0 THEN Fail(o0, "ValueError")
       ELSE
       LET o1 == [o0 EXCEPT !.data_size = data_size, !.data_type = data_type]
       IN IF ~(complex_type \in {"False", "True"} \/ IsCallable(complex_type))
          THEN Fail(o1, "ValueError")
          ELSE
          LET o2 == [o1 EXCEPT !.complex_type = complex_type]
          IN IF complex_type = "True" /\ data_type # "float32"
             THEN Fail(o2, "ValueError")
             ELSE IF IsCallable(complex_type) /\ data_type \notin {"uint8", "int16"}
             THEN Fail(o2, "ValueError")
             ELSE [obj |-> [o2 EXCEPT
                              !.data_offset = data_offset,
                              !.shape = IF complex_type = "False" THEN data_size
                                        ELSE <<data_size[1], data_size[2], 2>>,
                              !.memory_map = "none", !.fid = "none"],
                   raised |-> "none"]

\* A validation that asks the callable for its output type at construction.
BIPWriter_init_checks_callable_output(data_size, data_type, complex_type, data_offset) ==
    LET o0 == AbstractWriter_init
        Fail(o, e) == [obj |-> o, raised |-> e]
    IN IF Len(data_size) # 2 THEN Fail(o0, "ValueError")
       ELSE IF data_size[1] < 0 \/ data_size[2] < 0 THEN Fail(o0, "ValueError")
       ELSE
       LET o1 == [o0 EXCEPT !.data_size = data_size, !.data_type = data_type]
       IN IF ~(complex_type \in {"False", "True"} \/ IsCallable(complex_type))
          THEN Fail(o1, "ValueError")
          ELSE
          LET o2 == [o1 EXCEPT !.complex_type = complex_type]
          IN IF complex_type = "True" /\ data_type # "float32"
             THEN Fail(o2, "ValueError")
             ELSE IF IsCallable(complex_type)
                     /\ (data_type \notin {"uint8", "int16"}
                         \/ CallableOutDType(complex_type) # data_type)
             THEN Fail(o2, "ValueError")
             ELSE [obj |-> [o2 EXCEPT
                              !.data_offset = data_offset,
                              !.shape = IF complex_type = "False" THEN data_size
                                        ELSE <<data_size[1], data_size[2], 2>>,
                              !.memory_map = "none", !.fid = "none"],
                   raised |-> "none"]

\* BIPWriter.__init__, lines 194-228: the checks of the arguments and the
\* attributes set before a storage handle is acquired: [obj, raised].
BIPWriter_init_checks(data_size, data_type, complex_type, data_offset) ==
    LET o0 == AbstractWriter_init
        Fail(o, e) == [obj |-> o, raised |-> e]
    IN IF Len(data_size) # 2 THEN Fail(o0, "ValueError")
       ELSE IF data_size[1] < 0 \/ data_size[2] < 0 THEN Fail(o0, "ValueError")
       ELSE
       LET o1 == [o0 EXCEPT !.data_size = data_size, !.data_type = data_type]
       IN IF ~(complex_type \in {"False", "True"} \/ IsCallable(complex_type))
          THEN Fail(o1, "ValueError")
          ELSE
          LET o2 == [o1 EXCEPT !.complex_type = complex_type]
          IN IF complex_type = "True" /\ data_type # "float32"
             THEN Fail(o2, "ValueError")
             ELSE IF IsCallable(complex_type) /\ data_type \notin {"uint8", "int16"}
             THEN Fail(o2, "ValueError")
             ELSE [obj |-> [o2 EXCEPT
                              !.data_offset = data_offset,
                              !.shape = IF complex_type = "False" THEN data_size
                                        ELSE <<data_size[1], data_size[2], 2>>,
                              !.memory_map = "none", !.fid = "none"],
                   raised |-> "none"]

\* A constructor that opens the file before it tries to map it.
BIPWriter_init_opens_first(data_size, data_type, complex_type, data_offset, mmapFails, openFails) ==
    LET v == BIPWriter_init_checks(data_size, data_type, complex_type, data_offset)
    IN IF v.raised # "none" THEN [obj |-> v.obj, raised |-> v.raised, warned |-> 0]
       ELSE IF openFails THEN [obj |-> v.obj, raised |-> "IOError", warned |-> 0]
       ELSE IF ~mmapFails
       THEN [obj |-> [v.obj EXCEPT !.life = "live", !.memory_map = "map",
                                   !.fid = "open"],
             raised |-> "none", warned |-> 0]
       ELSE [obj |-> [v.obj EXCEPT !.life = "live", !.fid = "open", !.pos = 0],
             raised |-> "none", warned |-> 1]

\* A constructor that logs the fallback before it opens the file.
BIPWriter_init_warns_first(data_size, data_type, complex_type, data_offset, mmapFails, openFails) ==
    LET v == BIPWriter_init_checks(data_size, data_type, complex_type, data_offset)
    IN IF v.raised # "none" THEN [obj |-> v.obj, raised |-> v.raised, warned |-> 0]
       ELSE IF ~mmapFails
       THEN [obj |-> [v.obj EXCEPT !.life = "live", !.memory_map = "map"],
             raised |-> "none", warned |-> 0]
       ELSE IF openFails THEN [obj |-> v.obj, raised |-> "IOError", warned |-> 1]
       ELSE [obj |-> [v.obj EXCEPT !.life = "live", !.fid = "open", !.pos = 0],
             raised |-> "none", warned |-> 1]

\* BIPWriter.__init__: [obj, raised, warned].  mmapFails: numpy.memmap raises
\* OverflowError or OSError; openFails: open(file_name, 'r+b') raises.
BIPWriter_init(data_size, data_type, complex_type, data_offset, mmapFails, openFails) ==
    LET v == BIPWriter_init_checks(data_size, data_type, complex_type, data_offset)
    IN IF v.raised # "none" THEN [obj |-> v.obj, raised |-> v.raised, warned |-> 0]
       ELSE IF ~mmapFails
       THEN [obj |-> [v.obj EXCEPT !.life = "live", !.memory_map = "map"],
             raised |-> "none", warned |-> 0]
       ELSE IF openFails THEN [obj |-> v.obj, raised |-> "IOError", warned |-> 0]
       ELSE [obj |-> [v.obj EXCEPT !.life = "live", !.fid = "open", !.pos = 0],
             raised |-> "none", warned |-> 1]

\* The row-by-row loop of BIPWriter._call (lines 313-318).
RECURSIVE WriteRows(_, _, _, _, _, _, _)
WriteRows(f, pos, data, dt, i, skip, n) ==
    IF i >= data.shape[1]
    THEN [file |-> f, pos |-> pos, raised |-> "none", nbytes |-> n]
    ELSE LET bytes == ToBytes(AsType(RowOf(data, i), dt))
             f1 == WriteAt(f, pos, bytes)
             p1 == pos + Len(bytes)
         IN IF i < data.shape[1] - 1
            THEN IF p1 + skip < 0
                 THEN [file |-> f1, pos |-> p1, raised |-> "OSError",
                       nbytes |-> n + Len(bytes)]
                 ELSE WriteRows(f1, p1 + skip, data, dt, i + 1, skip, n + Len(bytes))
            ELSE [file |-> f1, pos |-> p1, raised |-> "none",
                  nbytes |-> n + Len(bytes)]

\* A _call whose first seek is relative to the file position it finds.
BIPWriter__call_relative_seek(self, f, start1, stop1, start2, stop2, data) ==
    IF self.memory_map = "map"
    THEN MemmapAssign(self, f, start1, stop1, start2, stop2, data)
    ELSE
    LET element_size == IF Len(self.shape) = 3
                        THEN itemsize(self.data_type) * self.shape[3]
                        ELSE itemsize(self.data_type)
        stride == element_size * self.data_size[1]
        p0 == self.pos + self.data_offset + stride * start1 + element_size * start2
    IN IF self.fid # "open"
       THEN [file |-> f, pos |-> self.pos, raised |-> "ValueError", nbytes |-> 0]
       ELSE IF p0 < 0
       THEN [file |-> f, pos |-> self.pos, raised |-> "OSError", nbytes |-> 0]
       ELSE IF start1 = 0 /\ stop1 = self.data_size[1]
       THEN LET bytes == ToBytes(AsType(data, self.data_type))
            IN [file |-> WriteAt(f, p0, bytes), pos |-> p0 + Len(bytes),
                raised |-> "none", nbytes |-> Len(bytes)]
       ELSE WriteRows(f, p0, data, self.data_type, 0,
                      element_size * (self.data_size[1] - (stop1 - start1)), 0)

\* BIPWriter._call: [file, pos, raised, nbytes]
BIPWriter__call(self, f, start1, stop1, start2, stop2, data) ==
    IF self.memory_map = "map"
    THEN MemmapAssign(self, f, start1, stop1, start2, stop2, data)
    ELSE
    LET element_size == IF Len(self.shape) = 3
                        THEN itemsize(self.data_type) * self.shape[3]
                        ELSE itemsize(self.data_type)
        stride == element_size * self.data_size[1]
        p0 == self.data_offset + stride * start1 + element_size * start2
    IN IF self.fid # "open"
       THEN \* seek on a closed file
            [file |-> f, pos |-> self.pos, raised |-> "ValueError", nbytes |-> 0]
       ELSE IF p0 < 0
       THEN [file |-> f, pos |-> self.pos, raised |-> "OSError", nbytes |-> 0]
       ELSE IF start1 = 0 /\ stop1 = self.data_size[1]
       THEN LET bytes == ToBytes(AsType(data, self.data_type))
            IN [file |-> WriteAt(f, p0, bytes), pos |-> p0 + Len(bytes),
                raised |-> "none", nbytes |-> Len(bytes)]
       ELSE WriteRows(f, p0, data, self.data_type, 0,
                      element_size * (self.data_size[1] - (stop1 - start1)), 0)

\* A __call__ that hands the transform's output to _call before it looks at
\* its type.
BIPWriter_call_writes_first(self, f, data, start_indices) ==
    LET start1 == start_indices[1]
        stop1 == start_indices[1] + data.shape[1]
        start2 == start_indices[2]
        stop2 == start_indices[2] + data.shape[2]
        Raise(e) == [file |-> f, pos |-> self.pos, raised |-> e, nbytes |-> 0]
    IN IF self.complex_type = "False"
       THEN IF data.dtype # self.data_type THEN Raise("ValueError")
            ELSE BIPWriter__call(self, f, start1, stop1, start2, stop2, data)
       ELSE IF IsCallable(self.complex_type)
       THEN LET new_data == ApplyCallable(self.complex_type, data)
                r == BIPWriter__call(self, f, start1, stop1, start2, stop2, new_data)
            IN IF new_data.dtype # self.data_type /\ r.raised = "none"
               THEN [r EXCEPT !.raised = "ValueError"]
               ELSE r
       ELSE IF ~IsComplexDType(data.dtype) THEN Raise("ValueError")
            ELSE BIPWriter__call(self, f, start1, stop1, start2, stop2,
                                 ViewFloat32(AsType(data, "complex64")))

\* BIPWriter.__call__: [file, pos, raised, nbytes]
BIPWriter_call(self, f, data, start_indices) ==
    LET start1 == start_indices[1]
        stop1 == start_indices[1] + data.shape[1]
        start2 == start_indices[2]
        stop2 == start_indices[2] + data.shape[2]
        Raise(e) == [file |-> f, pos |-> self.pos, raised |-> e, nbytes |-> 0]
    IN IF self.complex_type = "False"
       THEN IF data.dtype # self.data_type THEN Raise("ValueError")
            ELSE BIPWriter__call(self, f, start1, stop1, start2, stop2, data)
       ELSE IF IsCallable(self.complex_type)
       THEN LET new_data == ApplyCallable(self.complex_type, data)
            IN IF new_data.dtype # self.data_type THEN Raise("ValueError")
               ELSE BIPWriter__call(self, f, start1, stop1, start2, stop2, new_data)
       ELSE IF ~IsComplexDType(data.dtype) THEN Raise("ValueError")
            ELSE BIPWriter__call(self, f, start1, stop1, start2, stop2,
                                 ViewFloat32(AsType(data, "complex64")))

\* A close() that does not look at fid.closed.
BIPWriter_close_unguarded(self) ==
    IF self.fid # "unset" /\ self.fid # "none"
    THEN [obj |-> [self EXCEPT !.fid = "closed"], raised |-> "none", closed |-> 1]
    ELSE [obj |-> self, raised |-> "none", closed |-> 0]

\* BIPWriter.close: [obj, raised, closed]; closed counts the fid.close() calls
BIPWriter_close(self) ==
    IF self.fid # "unset" /\ self.fid # "none" /\ self.fid # "closed"
    THEN [obj |-> [self EXCEPT !.fid = "closed"], raised |-> "none", closed |-> 1]
    ELSE [obj |-> self, raised |-> "none", closed |-> 0]

\* BIPWriter.__del__
BIPWriter_del(self) ==
    LET r == BIPWriter_close(self)
    IN [r EXCEPT !.obj = [r.obj EXCEPT !.life = "deleted"]]

\* BIPWriter.__exit__: [obj, raised, closed, logged]
BIPWriter_exit(self, exception_type) ==
    IF exception_type = "None"
    THEN LET r == BIPWriter_close(self)
         IN [obj |-> r.obj, raised |-> r.raised, closed |-> r.closed, logged |-> 0]
    ELSE [obj |-> self, raised |-> "none", closed |-> 0, logged |-> 1]

\* ----------------------------------------------------------- BIPChipper
NoSymmetry == <<FALSE, FALSE, FALSE>>

NoChipper ==
    [life |-> "absent", data_size |-> <<>>, symmetry |-> NoSymmetry,
     complex_type |-> "unset",
     data_type |-> "unset", data_offset |-> 0, bands |-> 0, shape |-> <<>>,
     memory_map |-> "unset", fid |-> "unset", pos |-> 0]

\* BaseChipper.__init__(data_size, symmetry, complex_type) keeps its arguments:
\* data_size is the size of the data after the symmetry is applied, symmetry
\* is (flip axis 1, flip axis 2, transpose).
BaseChipper_init(data_size, symmetry, complex_type) ==
    [NoChipper EXCEPT !.life = "failed", !.data_size = data_size,
                      !.symmetry = symmetry, !.complex_type = complex_type]

\* A constructor that takes bands_ip for the number of bands as it is.
BIPChipper_init_checks_single_band(data_type, data_size, symmetry, complex_type, data_offset, bands_ip, access) ==
    LET o0 == BaseChipper_init(data_size, symmetry, complex_type)
        bands == bands_ip
        o1 == [o0 EXCEPT !.data_offset = data_offset, !.data_type = data_type,
                         !.bands = bands,
                         !.shape = data_size \o <<bands>>]
    IN IF access = "missing" THEN [obj |-> o1, raised |-> "IOError"]
       ELSE IF access = "unreadable" THEN [obj |-> o1, raised |-> "IOError"]
       ELSE [obj |-> [o1 EXCEPT !.memory_map = "none", !.fid = "none"],
             raised |-> "none"]

\* BIPChipper.__init__, lines 62-77: [obj, raised].  access: what
\* os.path.isfile and os.access find.
BIPChipper_init_checks(data_type, data_size, symmetry, complex_type, data_offset, bands_ip, access) ==
    LET o0 == BaseChipper_init(data_size, symmetry, complex_type)
        bands == IF o0.complex_type # "False" THEN bands_ip * 2 ELSE bands_ip
        o1 == [o0 EXCEPT !.data_offset = data_offset, !.data_type = data_type,
                         !.bands = bands,
                         !.shape = data_size \o <<bands>>]
    IN IF access = "missing" THEN [obj |-> o1, raised |-> "IOError"]
       ELSE IF access = "unreadable" THEN [obj |-> o1, raised |-> "IOError"]
       ELSE [obj |-> [o1 EXCEPT !.memory_map = "none", !.fid = "none"],
             raised |-> "none"]

\* A constructor without the fallback: the error of numpy.memmap reaches the
\* caller.
BIPChipper_init_no_fallback(data_type, data_size, symmetry, complex_type, data_offset, bands_ip, access, mmapFails, openFails) ==
    LET v == BIPChipper_init_checks(data_type, data_size, symmetry, complex_type,
                                    data_offset, bands_ip, access)
    IN IF v.raised # "none" THEN [obj |-> v.obj, raised |-> v.raised, warned |-> 0]
       ELSE IF ~mmapFails
       THEN [obj |-> [v.obj EXCEPT !.life = "live", !.memory_map = "map"],
             raised |-> "none", warned |-> 0]
       ELSE [obj |-> v.obj, raised |-> "OSError", warned |-> 0]

\* BIPChipper.__init__: [obj, raised, warned].  mmapFails: numpy.memmap raises
\* OverflowError or OSError; openFails: open(file_name, 'rb') raises.
BIPChipper_init(data_type, data_size, symmetry, complex_type, data_offset, bands_ip, access, mmapFails, openFails) ==
    LET v == BIPChipper_init_checks(data_type, data_size, symmetry, complex_type,
                                    data_offset, bands_ip, access)
    IN IF v.raised # "none" THEN [obj |-> v.obj, raised |-> v.raised, warned |-> 0]
       ELSE IF ~mmapFails
       THEN [obj |-> [v.obj EXCEPT !.life = "live", !.memory_map = "map"],
             raised |-> "none", warned |-> 0]
       ELSE IF openFails THEN [obj |-> v.obj, raised |-> "IOError", warned |-> 0]
       ELSE [obj |-> [v.obj EXCEPT !.life = "live", !.fid = "open", !.pos = 0],
             raised |-> "none", warned |-> 1]

\* BIPChipper.__del__: [obj, closed]
BIPChipper_del(self) ==
    IF self.fid # "unset" /\ self.fid # "none" /\ self.fid # "closed"
    THEN [obj |-> [self EXCEPT !.fid = "closed", !.life = "deleted"], closed |-> 1]
    ELSE [obj |-> [self EXCEPT !.life = "deleted"], closed |-> 0]

\* numpy.array(self._memory_map[I1, I2], dtype): a copy of the elements at the
\* rows I1 and columns I2 with all their bands; an element is its bytes.
\* owndata: the array owns its storage, it is no view of the mapping.
MemmapTake(self, f, I1, I2) ==
    LET n2 == Len(I2)
        nb == self.bands
        isz == itemsize(self.data_type)
        Elem(k) == LET b == (k - 1) % nb
                       p == (k - 1) \div nb
                       a == ElementAddress(self.data_offset, self.shape[2], nb, isz,
                                           I1[(p \div n2) + 1], I2[(p % n2) + 1], b)
                   IN SubSeq(f, a + 1, a + isz)
    IN [raised |-> "none", shape |-> <<Len(I1), n2, nb>>,
        flat |-> [k \in 1..(Len(I1) * n2 * nb) |-> Elem(k)], owndata |-> TRUE]

\* A _read_memory_map that returns the slice of the mapping itself, without
\* numpy.array around it.
BIPChipper_read_memory_map_view(self, f, range1, range2) ==
    LET d0 == self.shape[1]
        d1 == self.shape[2]
        Open(r) == r[2] = -1 /\ r[3] < 0
        View(a) == [a EXCEPT !.owndata = FALSE]
    IN IF Open(range1) /\ Open(range2)
       THEN View(MemmapTake(self, f, PySlice(range1[1], FALSE, 0, range1[3], d0),
                                     PySlice(range2[1], FALSE, 0, range2[3], d1)))
       ELSE IF Open(range1)
       THEN View(MemmapTake(self, f, PySlice(range1[1], FALSE, 0, range1[3], d0),
                                     PySlice(range2[1], TRUE, range2[2], range2[3], d1)))
       ELSE IF Open(range2)
       THEN View(MemmapTake(self, f, PySlice(range1[1], TRUE, range1[2], range1[3], d0),
                                     PySlice(range2[1], FALSE, 0, range2[3], d1)))
       ELSE View(MemmapTake(self, f, PySlice(range1[1], TRUE, range1[2], range1[3], d0),
                                     PySlice(range2[1], TRUE, range2[2], range2[3], d1)))

\* BIPChipper._read_memory_map
BIPChipper_read_memory_map(self, f, range1, range2) ==
    LET d0 == self.shape[1]
        d1 == self.shape[2]
        Open(r) == r[2] = -1 /\ r[3] < 0
    IN IF Open(range1) /\ Open(range2)
       THEN MemmapTake(self, f, PySlice(range1[1], FALSE, 0, range1[3], d0),
                                PySlice(range2[1], FALSE, 0, range2[3], d1))
       ELSE IF Open(range1)
       THEN MemmapTake(self, f, PySlice(range1[1], FALSE, 0, range1[3], d0),
                                PySlice(range2[1], TRUE, range2[2], range2[3], d1))
       ELSE IF Open(range2)
       THEN MemmapTake(self, f, PySlice(range1[1], TRUE, range1[2], range1[3], d0),
                                PySlice(range2[1], FALSE, 0, range2[3], d1))
       ELSE MemmapTake(self, f, PySlice(range1[1], TRUE, range1[2], range1[3], d0),
                                PySlice(range2[1], TRUE, range2[2], range2[3], d1))

\* numpy.arange(range1) of line 132: its one argument is the (start, stop,
\* step) tuple itself, taken as `stop`; arange computes stop - 0 and raises
\* TypeError (unsupported operand types: 'tuple' and 'int').
numpy_arange(range) == [raised |-> "TypeError", val |-> <<>>]

\* BIPChipper._read_file: [raised, shape, flat].  Lines 128-130 raise nothing
\* on integer ranges; line 132 raises before the file is touched.
BIPChipper_read_file(self, f, range1, range2) ==
    LET element_size == itemsize(self.data_type) * self.bands
        stride == element_size * self.shape[1]
        entries_per_row == IF range1[2] - range1[1] < 0 THEN range1[1] - range1[2]
                           ELSE range1[2] - range1[1]
        dim1array == numpy_arange(range1)
    IN [raised |-> dim1array.raised, shape |-> <<>>, flat |-> <<>>, owndata |-> TRUE]

\* The range normalisation of the specification.  stop = -1 with a positive
\* step means the end of the axis; stop = -1 with a negative step is kept
\* (down to and including index 0); a range whose bounds leave the axis is a
\* RangeError.
NormalizeRange(range, L) ==
    LET start == range[1]
        step == range[3]
        stop == IF range[2] = -1 /\ step > 0 THEN L ELSE range[2]
        ok == /\ step # 0
              /\ start >= 0 /\ start < L
              /\ \/ (stop = -1 /\ step < 0)
                 \/ (stop >= 0 /\ stop <= L)
    IN [raised |-> IF ok THEN "none" ELSE "RangeError",
        range |-> <<start, stop, step>>]

\* The range that visits, on an axis of length L that is stored flipped, the
\* places of a normalised range: index i is stored at L - 1 - i.
ReverseRange(range, L) == <<L - 1 - range[1], L - 1 - range[2], -range[3]>>

\* BaseChipper._reorder_arguments: the ranges of the caller, normalised, as
\* ranges of the stored array: exchanged when the symmetry transposes, then
\* reversed on each stored axis the symmetry flips.
BaseChipper_reorder_arguments(self, range1, range2) ==
    LET n1 == NormalizeRange(range1, self.data_size[1])
        n2 == NormalizeRange(range2, self.data_size[2])
        t == self.symmetry[3]
        s1 == IF t THEN n2.range ELSE n1.range
        s2 == IF t THEN n1.range ELSE n2.range
        L1 == IF t THEN self.data_size[2] ELSE self.data_size[1]
        L2 == IF t THEN self.data_size[1] ELSE self.data_size[2]
    IN [raised |-> IF n1.raised # "none" THEN n1.raised ELSE n2.raised,
        range1 |-> IF self.symmetry[1] THEN ReverseRange(s1, L1) ELSE s1,
        range2 |-> IF self.symmetry[2] THEN ReverseRange(s2, L2) ELSE s2]

\* A _read_raw_fun that hands the caller's ranges to the backend as they are.
BIPChipper_read_raw_fun_unchecked(self, f, range1, range2) ==
    IF self.memory_map # "none"
    THEN BIPChipper_read_memory_map(self, f, range1, range2)
    ELSE IF self.fid # "none"
    THEN BIPChipper_read_file(self, f, range1, range2)
    ELSE [raised |-> "none", shape |-> <<>>, flat |-> <<>>, owndata |-> TRUE]

\* BIPChipper._read_raw_fun: [raised, shape, flat]
BIPChipper_read_raw_fun(self, f, range1, range2) ==
    LET a == BaseChipper_reorder_arguments(self, range1, range2)
    IN IF a.raised # "none"
       THEN [raised |-> a.raised, shape |-> <<>>, flat |-> <<>>, owndata |-> TRUE]
       ELSE IF self.memory_map # "none"
       THEN BIPChipper_read_memory_map(self, f, a.range1, a.range2)
       ELSE IF self.fid # "none"
       THEN BIPChipper_read_file(self, f, a.range1, a.range2)
       ELSE [raised |-> "none", shape |-> <<>>, flat |-> <<>>, owndata |-> TRUE]

\* ------------------------------------------------------------- inputs
Shapes == {<<r, k>> : r \in 1..MaxDim, k \in 1..MaxDim}

\* (data_type, complex_type) of the raster: passthrough, a transform whose
\* output has the raw type, a transform whose output has another type, and
\* adjacent real/imaginary float32 bands.
TypeModes == {<<"uint8", "False">>, <<"int16", "to_int16">>,
              <<"int16", "to_float32">>, <<"float32", "True">>}

Descriptors ==
    {[data_size |-> s, data_type |-> tm[1], complex_type |-> tm[2],
      data_offset |-> o, symmetry |-> NoSymmetry] :
        s \in Shapes, tm \in TypeModes, o \in {0, MaxOffset}}

RasterBytes(d) ==
    d.data_size[1] * d.data_size[2] * itemsize(d.data_type)
        * (IF d.complex_type = "False" THEN 1 ELSE 2)

\* The arrays a caller writes: sample (i, j) is different at every place.
DataDTypes == {"uint8", "float64", "complex64", "complex128"}

Sample(dt, i, j) ==
    LET n == i * 10 + j + 1
    IN CASE dt = "uint8" -> n
         [] dt = "float64" -> n
         [] dt = "complex64" -> <<n, n + 50>>
         [] dt = "complex128" -> <<16777216 + n, n>>

MkData(dt, r, k) ==
    [dtype |-> dt, shape |-> <<r, k>>,
     flat |-> [x \in 1..(r * k) |-> Sample(dt, (x - 1) \div k, (x - 1) % k)]]

\* A write request names the array (its dtype and shape) and start_indices.
WriteRequests ==
    {[dtype |-> dt, rows |-> r, cols |-> k, start |-> <<s1, s2>>] :
        dt \in DataDTypes, r \in 1..MaxDim, k \in 1..MaxDim,
        s1 \in 0..(MaxDim - 1), s2 \in 0..(MaxDim - 1)}

\* One sample at the origin, of a real and of a complex type.
BasicRequests ==
    {[dtype |-> dt, rows |-> 1, cols |-> 1, start |-> <<0, 0>>] :
        dt \in {"uint8", "complex64"}}

DataOf(rq) == MkData(rq.dtype, rq.rows, rq.cols)

\* The ranges (start, stop, step) a caller asks for on an axis; a window
\* varies one axis over all of them while the other takes a basic range.
Steps == {-2, -1, 1, 2}
Ranges == {<<a, b, s>> : a \in 0..MaxDim, b \in -1..MaxDim, s \in Steps}
BasicRanges == {<<0, -1, 1>>, <<0, -1, -1>>}
Windows == {<<r1, r2>> : r1 \in Ranges, r2 \in BasicRanges}
               \cup {<<r1, r2>> : r1 \in BasicRanges, r2 \in Ranges}

FullWindow(d) == <<<<0, d.data_size[1], 1>>, <<0, d.data_size[2], 1>>>>

NoOut == [op |-> "none", raised |-> "none", nbytes |-> 0, changed |-> FALSE,
          shape |-> <<>>, flat |-> <<>>, owndata |-> TRUE,
          mmapFails |-> FALSE, openFails |-> FALSE, access |-> "ok"]

\* -------------------------------------------------------- state machine
NoOps == [i \in {1, 2} |-> [state |-> "idle", queue |-> <<>>]]

\* No instance is constructed yet, nothing is logged.
InitObjects ==
    /\ w = NoWriter
    /\ w2 = NoWriter
    /\ c = NoChipper
    /\ out = NoOut
    /\ ncalls = 0
    /\ warnings = [i \in {"w", "w2", "c"} |-> 0]
    /\ errors = 0
    /\ closes = [i \in {"w", "w2", "c"} |-> 0]
    /\ closeCalled = FALSE
    /\ ops = NoOps

InitCommon ==
    /\ desc \in Descriptors
    /\ file = InitialFile(desc.data_offset + RasterBytes(desc))
    /\ InitObjects

\* The life of one instance, a writer or a chipper.
Init ==
    /\ InitCommon
    /\ req = FullWindow(desc)
    /\ wreq \in BasicRequests
    /\ wreq2 = wreq

\* One writer and the writes of one array.
WriteInit ==
    /\ InitCommon
    /\ req = FullWindow(desc)
    /\ wreq \in WriteRequests
    /\ wreq2 = wreq

\* One chipper and the reads of one window.
ReadInit ==
    /\ InitCommon
    /\ req \in Windows
    /\ wreq = [dtype |-> "uint8", rows |-> 1, cols |-> 1, start |-> <<0, 0>>]
    /\ wreq2 = wreq

\* access: what the file system holds at file_name.  numpy.memmap(mode='r+')
\* and open(mode='r+b') both raise an OSError on a file that is missing or
\* not writable.
WriterConstruct ==
    /\ w.life = "absent"
    /\ c.life = "absent"
    /\ \E access \in {"ok", "missing", "unwritable"},
          mmapFails \in BOOLEAN, openFails \in BOOLEAN :
         LET r == BIPWriter_init(desc.data_size, desc.data_type, desc.complex_type,
                                 desc.data_offset,
                                 mmapFails \/ access # "ok",
                                 openFails \/ access # "ok")
         IN /\ w' = r.obj
            /\ warnings' = [warnings EXCEPT !["w"] = @ + r.warned]
            /\ out' = [NoOut EXCEPT !.op = "w_init", !.raised = r.raised,
                                    !.mmapFails = mmapFails \/ access # "ok",
                                    !.openFails = openFails \/ access # "ok",
                                    !.access = access]
    /\ UNCHANGED <<desc, req, wreq, file, c, ncalls, errors, closes, closeCalled,
                 concVars>>

WriterCall ==
    /\ w.life = "live"
    /\ ncalls < MaxCalls
    /\ LET res == BIPWriter_call(w, file, DataOf(wreq), wreq.start)
       IN /\ file' = res.file
          /\ w' = [w EXCEPT !.pos = res.pos,
                            !.pending = (w.scope = "in" /\ res.raised # "none")]
          /\ out' = [NoOut EXCEPT !.op = "w_call", !.raised = res.raised,
                                  !.nbytes = res.nbytes,
                                  !.changed = (res.file # file)]
    /\ ncalls' = ncalls + 1
    /\ UNCHANGED <<desc, req, wreq, c, warnings, errors, closes, closeCalled,
                 concVars>>

WriterClose ==
    /\ w.life = "live"
    /\ LET r == BIPWriter_close(w)
       IN /\ w' = r.obj
          /\ closes' = [closes EXCEPT !["w"] = @ + r.closed]
          /\ out' = [NoOut EXCEPT !.op = "w_close", !.raised = r.raised]
    /\ closeCalled' = TRUE
    /\ UNCHANGED <<desc, req, wreq, file, c, ncalls, warnings, errors,
                 concVars>>

\* BIPWriter.__enter__ returns self.
WriterEnter ==
    /\ w.life = "live"
    /\ w.scope = "out"
    /\ w' = [w EXCEPT !.scope = "in"]
    /\ out' = [NoOut EXCEPT !.op = "w_enter"]
    /\ UNCHANGED <<desc, req, wreq, file, c, ncalls, warnings, errors, closes, closeCalled,
                 concVars>>

\* The scope ends: with the exception of the last write when that write
\* raised and the body did not catch it, without an exception otherwise.
WriterExit ==
    /\ w.life = "live"
    /\ w.scope = "in"
    /\ LET r == BIPWriter_exit(w, IF w.pending THEN "ValueError" ELSE "None")
       IN /\ w' = [r.obj EXCEPT !.scope = "exited"]
          /\ closes' = [closes EXCEPT !["w"] = @ + r.closed]
          /\ errors' = errors + r.logged
          /\ out' = [NoOut EXCEPT !.op = "w_exit", !.raised = r.raised]
    /\ closeCalled' = (closeCalled \/ ~w.pending)
    /\ UNCHANGED <<desc, req, wreq, file, c, ncalls, warnings,
                 concVars>>

\* The instance is collected: also one whose construction raised.
WriterDel ==
    /\ w.life \in {"live", "failed"}
    /\ w.scope # "in"
    /\ LET r == BIPWriter_del(w)
       IN /\ w' = r.obj
          /\ closes' = [closes EXCEPT !["w"] = @ + r.closed]
          /\ out' = [NoOut EXCEPT !.op = "w_del", !.raised = r.raised]
    /\ closeCalled' = TRUE
    /\ UNCHANGED <<desc, req, wreq, file, c, ncalls, warnings, errors,
                 concVars>>

\* The chipper's data_size comes from metadata its callers have validated.
\* A callable complex_type of a chipper is the inverse of the writer's
\* transform of that name.
ChipperConstruct ==
    /\ c.life = "absent"
    /\ w.life = "absent"
    /\ Len(desc.data_size) = 2
    /\ desc.data_size[1] >= 0 /\ desc.data_size[2] >= 0
    /\ \E access \in {"ok", "missing", "unreadable"},
          mmapFails \in BOOLEAN, openFails \in BOOLEAN :
         LET r == BIPChipper_init(desc.data_type, desc.data_size, desc.symmetry,
                                  desc.complex_type, desc.data_offset, 1, access,
                                  mmapFails, openFails)
         IN /\ c' = r.obj
            /\ warnings' = [warnings EXCEPT !["c"] = @ + r.warned]
            /\ out' = [NoOut EXCEPT !.op = "c_init", !.raised = r.raised,
                                    !.mmapFails = mmapFails /\ access = "ok",
                                    !.openFails = openFails \/ access # "ok",
                                    !.access = access]
    /\ UNCHANGED <<desc, req, wreq, file, w, ncalls, errors, closes, closeCalled,
                 concVars>>

ChipperRead ==
    /\ c.life = "live"
    /\ LET r == BIPChipper_read_raw_fun(c, file, req[1], req[2])
       IN out' = [NoOut EXCEPT !.op = "c_read", !.raised = r.raised,
                               !.shape = r.shape, !.flat = r.flat,
                               !.owndata = r.owndata]
    /\ UNCHANGED <<desc, req, wreq, file, w, c, ncalls, warnings, errors, closes, closeCalled,
                 concVars>>

\* The caller assigns a value to the first element of the array the last
\* read returned.  An array that owns its data takes the value; a view of the
\* chipper's mapping, which is mapped with mode='r' (line 84), is read-only
\* and the assignment raises ValueError.
ResultAssign ==
    /\ out.op = "c_read"
    /\ out.raised = "none"
    /\ Len(out.flat) > 0
    /\ out' = IF out.owndata
              THEN [out EXCEPT !.op = "assign",
                               !.flat[1] = [k \in 1..Len(out.flat[1]) |-> <<99, k - 1>>]]
              ELSE [out EXCEPT !.op = "assign", !.raised = "ValueError"]
    /\ UNCHANGED <<desc, req, wreq, file, w, c, ncalls, warnings, errors, closes,
                   closeCalled, concVars>>

ChipperDel ==
    /\ c.life \in {"live", "failed"}
    /\ LET r == BIPChipper_del(c)
       IN /\ c' = r.obj
          /\ closes' = [closes EXCEPT !["c"] = @ + r.closed]
          /\ out' = [NoOut EXCEPT !.op = "c_del"]
    /\ UNCHANGED <<desc, req, wreq, file, w, ncalls, warnings, errors, closeCalled,
                 concVars>>

Next ==
    \/ WriterConstruct
    \/ WriterCall
    \/ WriterClose
    \/ WriterEnter
    \/ WriterExit
    \/ WriterDel
    \/ ChipperConstruct
    \/ ChipperRead
    \/ ChipperDel

Spec == Init /\ [][Next]_vars

WriteNext ==
    \/ WriterConstruct
    \/ WriterCall

WriteSpec == WriteInit /\ [][WriteNext]_vars

ReadNext ==
    \/ ChipperConstruct
    \/ ChipperRead
    \/ ResultAssign
    \/ ChipperDel

ReadSpec == ReadInit /\ [][ReadNext]_vars

\* =============================================================== claims

\* "Set" is "is not None": a closed file object is still the instance's _fid.
HandleSet(h) == h \notin {"unset", "none"}

\* C1: after a successful construction exactly one of _memory_map and _fid
\* is set, for the writer and for the chipper, and no later call changes
\* which one it is.
C1_ExactlyOneBackendForever ==
    /\ [](/\ w.life = "live" => (HandleSet(w.memory_map) # HandleSet(w.fid))
          /\ c.life = "live" => (HandleSet(c.memory_map) # HandleSet(c.fid)))
    /\ [][/\ (w.life = "live" /\ w'.life = "live")
             => /\ HandleSet(w'.memory_map) = HandleSet(w.memory_map)
                /\ HandleSet(w'.fid) = HandleSet(w.fid)
          /\ (c.life = "live" /\ c'.life = "live")
             => /\ HandleSet(c'.memory_map) = HandleSet(c.memory_map)
                /\ HandleSet(c'.fid) = HandleSet(c.fid)]_vars

\* A manual writer has written, was closed, and still holds only its _fid.
C1_Witness ==
    /\ w.life = "live" /\ ncalls > 0 /\ out.op = "w_close"
    /\ w.fid = "closed" /\ w.memory_map = "none"

\* C2: when the mapping fails and the file opens, construction succeeds on
\* the manual backend without an error, and the instance has logged exactly
\* one warning, then and never again; a mapped instance logs none.
FailoverWarnings(o) ==
    IF o.life \in {"live", "deleted"} /\ o.memory_map = "none" /\ HandleSet(o.fid)
    THEN 1 ELSE 0

C2_SilentFailover ==
    /\ (out.op = "w_init" /\ out.mmapFails /\ ~out.openFails)
       => (out.raised = "none" /\ w.life = "live" /\ w.fid = "open"
           /\ w.memory_map = "none")
    /\ (out.op = "c_init" /\ out.mmapFails /\ ~out.openFails)
       => (out.raised = "none" /\ c.life = "live" /\ c.fid = "open"
           /\ c.memory_map = "none")
    /\ warnings["w"] = FailoverWarnings(w)
    /\ warnings["c"] = FailoverWarnings(c)

\* A chipper that fell back to the manual backend has read since.
C2_Witness ==
    /\ c.life = "live" /\ c.fid = "open" /\ out.op = "c_read"
    /\ warnings["c"] = 1

\* C5: no close(), __exit__ or __del__ of a writer raises, and the file
\* handle is closed at most once whatever the sequence of these calls.
C5_IdempotentClose ==
    /\ closes["w"] <= 1
    /\ out.op \in {"w_close", "w_exit", "w_del"} => out.raised = "none"

\* The scope exited normally, so __exit__ called close(); close() was called
\* again afterwards, on the handle already closed.
C5_Witness ==
    /\ out.op = "w_close" /\ w.scope = "exited" /\ errors = 0
    /\ w.fid = "closed" /\ closes["w"] = 1

\* C6: when the scope of a writer has exited, normally or by a write that
\* raised, the writer's file handle is released.
C6_ReleasedAtScopeExit ==
    w.scope = "exited" => w.fid # "open"

\* The call's data does not have the type the writer's mode asks for.
TypeMismatch(self, data) ==
    \/ self.complex_type = "False" /\ data.dtype # self.data_type
    \/ IsCallable(self.complex_type)
         /\ CallableOutDType(self.complex_type) # self.data_type
    \/ self.complex_type = "True" /\ ~IsComplexDType(data.dtype)

\* C7: a write whose data has the wrong type raises and leaves every byte of
\* the file as it was, in every complex mode and under either backend.
C7_RejectedWriteWritesNothing ==
    (out.op = "w_call" /\ TypeMismatch(w, DataOf(wreq)))
    => (out.raised # "none" /\ ~out.changed /\ out.nbytes = 0)

\* A manual writer whose transform returns another type was called.
C7_Witness ==
    /\ out.op = "w_call" /\ w.fid = "open"
    /\ w.complex_type = "to_float32" /\ out.raised = "ValueError"

\* The window as the backends receive it, when the ranges are accepted.
Accepted == BaseChipper_reorder_arguments(c, req[1], req[2])

\* C3: for every accepted window the manual backend returns the array the
\* mapped backend returns, shape for shape and element for element; the
\* read just made, on the backend the chipper has, returned that array.
C3_BackendEquivalence ==
    (out.op = "c_read" /\ Accepted.raised = "none")
    => LET mapped == BIPChipper_read_memory_map(c, file, Accepted.range1,
                                                Accepted.range2)
           manual == BIPChipper_read_file(c, file, Accepted.range1, Accepted.range2)
       IN /\ manual = mapped
          /\ out.raised = "none"
          /\ out.shape = mapped.shape
          /\ out.flat = mapped.flat

\* The write of wreq fits the raster and has the type its mode asks for.
Fits(self, rq) ==
    /\ rq.start[1] + rq.rows <= self.data_size[1]
    /\ rq.start[2] + rq.cols <= self.data_size[2]

\* The raw array a write of `data` stores: the data itself, the transform's
\* output, or the (real, imaginary) float32 pairs.
RawOf(self, data) ==
    IF self.complex_type = "False" THEN data
    ELSE IF IsCallable(self.complex_type) THEN ApplyCallable(self.complex_type, data)
    ELSE ViewFloat32(AsType(data, "complex64"))

\* The elements of an array, each as its bytes.
ElementsOf(arr) ==
    LET isz == itemsize(arr.dtype)
        bytes == ToBytes(arr)
    IN [k \in 1..Len(arr.flat) |-> SubSeq(bytes, (k - 1) * isz + 1, k * isz)]

\* A chipper on the mapped backend, constructed on the written file.
ReadBackChipper ==
    BIPChipper_init(desc.data_type, desc.data_size, NoSymmetry, desc.complex_type,
                    desc.data_offset, 1, "ok", FALSE, FALSE).obj

\* C4: after a write of an array that fits and has the right type, reading
\* the window written returns the values written, in every complex mode and
\* under either backend of the writer.
C4_RoundTrip ==
    (out.op = "w_call" /\ Fits(w, wreq) /\ ~TypeMismatch(w, DataOf(wreq)))
    => LET back == BIPChipper_read_raw_fun(ReadBackChipper, file,
                       <<wreq.start[1], wreq.start[1] + wreq.rows, 1>>,
                       <<wreq.start[2], wreq.start[2] + wreq.cols, 1>>)
       IN /\ out.raised = "none"
          /\ back.raised = "none"
          /\ back.flat = ElementsOf(RawOf(w, DataOf(wreq)))

\* The indices a range asks for on an axis of length L, before any clamping.
Requested(range, L) ==
    SliceFrom(range[1],
              IF range[2] = -1 /\ range[3] > 0 THEN L ELSE range[2],
              range[3])

EntirelyOutside(range, L) ==
    /\ Requested(range, L) # <<>>
    /\ \A k \in 1..Len(Requested(range, L)) :
         Requested(range, L)[k] < 0 \/ Requested(range, L)[k] >= L

\* C8: a read of a window that lies entirely outside the raster on an axis
\* raises a range error, under both backends.
C8_OutOfRangeFailsClosed ==
    (out.op = "c_read" /\ (\/ EntirelyOutside(req[1], c.data_size[1])
                           \/ EntirelyOutside(req[2], c.data_size[2])))
    => out.raised = "RangeError"

\* A mapped chipper was asked for rows past the last row.
C8_Witness ==
    /\ out.op = "c_read" /\ c.memory_map = "map"
    /\ EntirelyOutside(req[1], c.data_size[1])
    /\ out.raised = "RangeError"

\* C9: a write of an array that does not fit the raster at start_indices
\* raises and changes no byte of the file, under both backends.
C9_NonFittingWriteRejected ==
    (out.op = "w_call" /\ ~Fits(w, wreq))
    => (out.raised # "none" /\ ~out.changed)

\* The range with the positive step that visits the indices of a range with
\* a negative step.
Forward(range, L) ==
    LET I == Requested(range, L)
    IN IF I = <<>> THEN <<0, 0, -range[3]>>
       ELSE <<I[Len(I)], range[1] + 1, -range[3]>>

\* An array with axis 1 (rows) or axis 2 (columns) reversed.
ReverseAxis(res, axis) ==
    IF res.shape = <<>> THEN res
    ELSE LET n1 == res.shape[1]
             n2 == res.shape[2]
             nb == res.shape[3]
         IN [res EXCEPT !.flat =
               [k \in 1..Len(res.flat) |->
                  LET b == (k - 1) % nb
                      j == ((k - 1) \div nb) % n2
                      i == (k - 1) \div (nb * n2)
                  IN IF axis = 1
                     THEN res.flat[((n1 - 1 - i) * n2 + j) * nb + b + 1]
                     ELSE res.flat[(i * n2 + (n2 - 1 - j)) * nb + b + 1]]]

ReadOutcome ==
    [raised |-> out.raised, shape |-> out.shape, flat |-> out.flat,
     owndata |-> out.owndata]

ReversedReadOn(self) ==
    /\ req[1][3] < 0
       => LET pos == BIPChipper_read_raw_fun(self, file,
                         Forward(req[1], self.data_size[1]), req[2])
          IN out.raised = "none" /\ pos.raised = "none"
             /\ ReadOutcome = ReverseAxis(pos, 1)
    /\ req[2][3] < 0
       => LET pos == BIPChipper_read_raw_fun(self, file, req[1],
                         Forward(req[2], self.data_size[2]))
          IN out.raised = "none" /\ pos.raised = "none"
             /\ ReadOutcome = ReverseAxis(pos, 2)

\* C10: on either backend a read with a negative step on an axis returns the
\* read with the equivalent positive step reversed along that axis.
C10_ReversedRead ==
    (out.op = "c_read" /\ Accepted.raised = "none") => ReversedReadOn(c)

\* ------------------------------------------- two writers on one file
ConcRows == 3
ConcCols == 3

\* The part of one image a writer is handed: sample (i, j) of the chip is the
\* image's sample (start1 + i, start2 + j).
ChipOf(rq) ==
    [dtype |-> rq.dtype, shape |-> <<rq.rows, rq.cols>>,
     flat |-> [x \in 1..(rq.rows * rq.cols) |->
                 Sample(rq.dtype, rq.start[1] + ((x - 1) \div rq.cols),
                        rq.start[2] + ((x - 1) % rq.cols))]]

\* A _call whose loop seeks after every row, the last one too.
BIPWriter__call_steps_trailing_seek(self, start1, stop1, start2, stop2, data) ==
    IF self.memory_map = "map"
    THEN <<[op |-> "assign", n |-> 0]>>
    ELSE
    LET element_size == IF Len(self.shape) = 3
                        THEN itemsize(self.data_type) * self.shape[3]
                        ELSE itemsize(self.data_type)
        stride == element_size * self.data_size[1]
        p0 == self.data_offset + stride * start1 + element_size * start2
        bytes_to_skip_per_row == element_size * (self.data_size[1] - (stop1 - start1))
    IN <<[op |-> "seek", n |-> p0]>> \o
       (IF start1 = 0 /\ stop1 = self.data_size[1]
        THEN <<[op |-> "tofile", n |-> -1]>>
        ELSE [k \in 1..(2 * data.shape[1]) |->
                IF k % 2 = 1 THEN [op |-> "tofile", n |-> (k - 1) \div 2]
                ELSE [op |-> "seek_cur", n |-> bytes_to_skip_per_row]])

\* A _call that writes from wherever the file position is: its first
\* operation is a relative seek of nothing instead of the seek of line 306.
BIPWriter__call_steps_no_seek(self, start1, stop1, start2, stop2, data) ==
    IF self.memory_map = "map"
    THEN <<[op |-> "assign", n |-> 0]>>
    ELSE
    LET element_size == IF Len(self.shape) = 3
                        THEN itemsize(self.data_type) * self.shape[3]
                        ELSE itemsize(self.data_type)
        bytes_to_skip_per_row == element_size * (self.data_size[1] - (stop1 - start1))
    IN <<[op |-> "seek_cur", n |-> 0]>> \o
       (IF start1 = 0 /\ stop1 = self.data_size[1]
        THEN <<[op |-> "tofile", n |-> -1]>>
        ELSE [k \in 1..(2 * data.shape[1] - 1) |->
                IF k % 2 = 1 THEN [op |-> "tofile", n |-> (k - 1) \div 2]
                ELSE [op |-> "seek_cur", n |-> bytes_to_skip_per_row]])

\* BIPWriter._call as the sequence of its operations on the storage: the one
\* slice assignment of the mapped path, or the seeks and the tofile calls of
\* the manual path (n of a tofile is the row written, -1 for the whole block).
BIPWriter__call_steps(self, start1, stop1, start2, stop2, data) ==
    IF self.memory_map = "map"
    THEN <<[op |-> "assign", n |-> 0]>>
    ELSE
    LET element_size == IF Len(self.shape) = 3
                        THEN itemsize(self.data_type) * self.shape[3]
                        ELSE itemsize(self.data_type)
        stride == element_size * self.data_size[1]
        p0 == self.data_offset + stride * start1 + element_size * start2
        bytes_to_skip_per_row == element_size * (self.data_size[1] - (stop1 - start1))
    IN <<[op |-> "seek", n |-> p0]>> \o
       (IF start1 = 0 /\ stop1 = self.data_size[1]
        THEN <<[op |-> "tofile", n |-> -1]>>
        ELSE [k \in 1..(2 * data.shape[1] - 1) |->
                IF k % 2 = 1 THEN [op |-> "tofile", n |-> (k - 1) \div 2]
                ELSE [op |-> "seek_cur", n |-> bytes_to_skip_per_row]])

\* One operation of _call on the storage: [file, pos, raised]
BIPWriter__call_step(self, f, o, start1, stop1, start2, stop2, data) ==
    CASE o.op = "assign" ->
           LET r == MemmapAssign(self, f, start1, stop1, start2, stop2, data)
           IN [file |-> r.file, pos |-> r.pos, raised |-> r.raised]
      [] o.op = "seek" ->
           IF self.fid # "open"
           THEN [file |-> f, pos |-> self.pos, raised |-> "ValueError"]
           ELSE IF o.n < 0 THEN [file |-> f, pos |-> self.pos, raised |-> "OSError"]
           ELSE [file |-> f, pos |-> o.n, raised |-> "none"]
      [] o.op = "seek_cur" ->
           IF self.pos + o.n < 0
           THEN [file |-> f, pos |-> self.pos, raised |-> "OSError"]
           ELSE [file |-> f, pos |-> self.pos + o.n, raised |-> "none"]
      [] o.op = "tofile" ->
           LET bytes == ToBytes(AsType(IF o.n = -1 THEN data ELSE RowOf(data, o.n),
                                       self.data_type))
           IN [file |-> WriteAt(f, self.pos, bytes), pos |-> self.pos + Len(bytes),
               raised |-> "none"]

\* BIPWriter.__call__ up to its call of _call: the state of the call and the
\* operations _call will make.
BIPWriter_call_begin(self, rq) ==
    IF TypeMismatch(self, ChipOf(rq))
    THEN [state |-> "raised", queue |-> <<>>]
    ELSE [state |-> "running",
          queue |-> BIPWriter__call_steps(self, rq.start[1], rq.start[1] + rq.rows,
                                          rq.start[2], rq.start[2] + rq.cols,
                                          RawOf(self, ChipOf(rq)))]

\* The call of a writer after its next operation.
AfterStep(o, raised) ==
    IF raised # "none" THEN [state |-> "raised", queue |-> <<>>]
    ELSE IF Len(o.queue) = 1 THEN [state |-> "done", queue |-> <<>>]
    ELSE [state |-> "running", queue |-> Tail(o.queue)]

StepOf(self, o, rq) ==
    BIPWriter__call_step(self, file, Head(o.queue), rq.start[1],
                         rq.start[1] + rq.rows, rq.start[2], rq.start[2] + rq.cols,
                         RawOf(self, ChipOf(rq)))

ConcShapes == {<<r, k>> : r \in 2..ConcRows, k \in 1..ConcCols}

ConcDescriptors ==
    {[data_size |-> s, data_type |-> tm[1], complex_type |-> tm[2],
      data_offset |-> o, symmetry |-> NoSymmetry] :
        s \in ConcShapes, tm \in TypeModes, o \in {0, MaxOffset}}

\* The first writer is given the rows [0, k) of the image and the second the
\* rows [k, dim1), over all the columns.
ConcInit ==
    /\ desc \in ConcDescriptors
    /\ file = InitialFile(desc.data_offset + RasterBytes(desc))
    /\ InitObjects
    /\ req = FullWindow(desc)
    /\ \E dt \in {"uint8", "complex64"}, k \in 1..(desc.data_size[1] - 1) :
         /\ wreq = [dtype |-> dt, rows |-> k, cols |-> desc.data_size[2],
                    start |-> <<0, 0>>]
         /\ wreq2 = [dtype |-> dt, rows |-> desc.data_size[1] - k,
                     cols |-> desc.data_size[2], start |-> <<k, 0>>]

Writer2Construct ==
    /\ w2.life = "absent"
    /\ \E access \in {"ok", "missing", "unwritable"},
          mmapFails \in BOOLEAN, openFails \in BOOLEAN :
         LET r == BIPWriter_init(desc.data_size, desc.data_type, desc.complex_type,
                                 desc.data_offset,
                                 mmapFails \/ access # "ok",
                                 openFails \/ access # "ok")
         IN /\ w2' = r.obj
            /\ warnings' = [warnings EXCEPT !["w2"] = @ + r.warned]
            /\ out' = [NoOut EXCEPT !.op = "w2_init", !.raised = r.raised,
                                    !.mmapFails = mmapFails \/ access # "ok",
                                    !.openFails = openFails \/ access # "ok",
                                    !.access = access]
    /\ UNCHANGED <<desc, req, wreq, file, w, c, ncalls, errors, closes, closeCalled,
                   wreq2, ops>>

\* The first writer's __call__ starts.
FirstBegin ==
    /\ w.life = "live"
    /\ ops[1].state = "idle"
    /\ ops' = [ops EXCEPT ![1] = BIPWriter_call_begin(w, wreq)]
    /\ out' = [NoOut EXCEPT !.op = "w_begin"]
    /\ UNCHANGED <<desc, req, wreq, file, w, c, ncalls, warnings, errors, closes,
                   closeCalled, w2, wreq2>>

\* The first writer's _call makes its next seek or write.
FirstStep ==
    /\ ops[1].state = "running"
    /\ LET r == StepOf(w, ops[1], wreq)
       IN /\ file' = r.file
          /\ w' = [w EXCEPT !.pos = r.pos]
          /\ ops' = [ops EXCEPT ![1] = AfterStep(ops[1], r.raised)]
          /\ out' = [NoOut EXCEPT !.op = "w_step", !.raised = r.raised]
    /\ UNCHANGED <<desc, req, wreq, c, ncalls, warnings, errors, closes,
                   closeCalled, w2, wreq2>>

SecondBegin ==
    /\ w2.life = "live"
    /\ ops[2].state = "idle"
    /\ ops' = [ops EXCEPT ![2] = BIPWriter_call_begin(w2, wreq2)]
    /\ out' = [NoOut EXCEPT !.op = "w2_begin"]
    /\ UNCHANGED <<desc, req, wreq, file, w, c, ncalls, warnings, errors, closes,
                   closeCalled, w2, wreq2>>

SecondStep ==
    /\ ops[2].state = "running"
    /\ LET r == StepOf(w2, ops[2], wreq2)
       IN /\ file' = r.file
          /\ w2' = [w2 EXCEPT !.pos = r.pos]
          /\ ops' = [ops EXCEPT ![2] = AfterStep(ops[2], r.raised)]
          /\ out' = [NoOut EXCEPT !.op = "w2_step", !.raised = r.raised]
    /\ UNCHANGED <<desc, req, wreq, c, ncalls, warnings, errors, closes,
                   closeCalled, w, wreq2>>

ConcNext ==
    \/ WriterConstruct
    \/ Writer2Construct
    \/ FirstBegin
    \/ FirstStep
    \/ SecondBegin
    \/ SecondStep

ConcSpec == ConcInit /\ [][ConcNext]_vars

\* The file after the two writes made one after the other, each as a whole.
Sequential(first, rq1, second, rq2) ==
    LET f0 == InitialFile(desc.data_offset + RasterBytes(desc))
        r1 == BIPWriter_call(first, f0, ChipOf(rq1), rq1.start)
    IN BIPWriter_call(second, r1.file, ChipOf(rq2), rq2.start).file

\* C11: when two writers on one file have each written its own rows of the
\* image, their seeks and writes interleaved in any way, the file is the file
\* the two writes leave when made one after the other, in either order.
C11_DisjointWritersCommute ==
    (ops[1].state = "done" /\ ops[2].state = "done")
    => /\ file = Sequential(w, wreq, w2, wreq2)
       /\ file = Sequential(w2, wreq2, w, wreq)

\* ------------------------------------------------- construction alone
\* What a caller may hand to a constructor, valid or not: a data_size of any
\* length with dimensions from -1 up, every raw type with every complex_type,
\* "None" being a complex_type that is neither a boolean nor a callable.
AnySizes ==
    {<<r, k>> : r \in -1..MaxDim, k \in -1..MaxDim} \cup {<<1>>, <<1, 1, 1>>}

AnyDescriptors ==
    {[data_size |-> s, data_type |-> dt, complex_type |-> ct, data_offset |-> o,
      symmetry |-> NoSymmetry] :
        s \in AnySizes, dt \in {"uint8", "int16", "float32"},
        ct \in {"False", "True", "None"} \cup Callables, o \in {0, MaxOffset}}

ValidSize(s) == Len(s) = 2 /\ s[1] >= 0 /\ s[2] >= 0

ConstructInit ==
    /\ desc \in AnyDescriptors
    /\ file = InitialFile(desc.data_offset
                          + (IF ValidSize(desc.data_size) THEN RasterBytes(desc) ELSE 0))
    /\ InitObjects
    /\ req = <<<<0, -1, 1>>, <<0, -1, 1>>>>
    /\ wreq = [dtype |-> "uint8", rows |-> 1, cols |-> 1, start |-> <<0, 0>>]
    /\ wreq2 = wreq

ConstructNext ==
    \/ WriterConstruct
    \/ WriterClose
    \/ WriterDel
    \/ ChipperConstruct
    \/ ChipperDel

ConstructSpec == ConstructInit /\ [][ConstructNext]_vars

\* The instance holds neither a mapping nor an open file.
NoHandle(o) == o.memory_map # "map" /\ o.fid # "open"

\* C12: a constructor given a file that is missing, not readable or not
\* writable raises; the instance it leaves is not usable, holds no mapping and
\* no open file, then and after its __del__, and has logged no fallback warning.
C12_InaccessibleFileIsFatal ==
    /\ (out.op = "w_init" /\ out.access # "ok")
       => (out.raised # "none" /\ w.life = "failed")
    /\ (out.op = "c_init" /\ out.access # "ok")
       => (out.raised # "none" /\ c.life = "failed")
    /\ w.life = "failed" => (NoHandle(w) /\ warnings["w"] = 0 /\ closes["w"] = 0)
    /\ c.life = "failed" => (NoHandle(c) /\ warnings["c"] = 0 /\ closes["c"] = 0)
    /\ (out.op = "w_del" /\ out.access # "ok") => NoHandle(w)

\* A writer was constructed on a file that is not there, with valid arguments.
C12_Witness ==
    /\ out.op = "w_init" /\ out.access = "missing"
    /\ ValidSize(desc.data_size) /\ w.complex_type = desc.complex_type
    /\ w.memory_map = "none" /\ out.raised = "IOError"

\* C13: with complex_type True and a raw type other than float32 the
\* constructor of the writer and the constructor of the chipper raise, and
\* leave neither a mapping nor an open file.
C13_AdjacentPairNeedsFloat32 ==
    (desc.complex_type = "True" /\ desc.data_type # "float32")
    => /\ out.op = "w_init" => (out.raised # "none" /\ NoHandle(w))
       /\ out.op = "c_init" => (out.raised # "none" /\ NoHandle(c))

\* A configuration the writer's constructor has to reject.
InvalidConfig(d) ==
    \/ Len(d.data_size) # 2
    \/ (Len(d.data_size) = 2 /\ (d.data_size[1] < 0 \/ d.data_size[2] < 0))
    \/ d.complex_type \notin ({"False", "True"} \cup Callables)
    \/ (d.complex_type \in Callables /\ d.data_type \notin {"uint8", "int16"})

\* C14: the writer's constructor raises ValueError on every invalid
\* configuration before lines 227-234 are reached, so that the instance has
\* neither attribute of a storage handle and has logged nothing; a valid
\* configuration with a dimension of 0 is not rejected: it is constructed
\* whenever the file can be mapped or opened.
C14_WriterValidation ==
    out.op = "w_init"
    => /\ InvalidConfig(desc)
          => /\ out.raised = "ValueError" /\ w.life = "failed"
             /\ w.memory_map = "unset" /\ w.fid = "unset"
             /\ warnings["w"] = 0
       /\ (/\ ~InvalidConfig(desc)
           /\ ~(desc.complex_type = "True" /\ desc.data_type # "float32")
           /\ (desc.data_size[1] = 0 \/ desc.data_size[2] = 0)
           /\ ~(out.mmapFails /\ out.openFails))
          => (out.raised = "none" /\ w.life = "live")

\* A callable complex_type with the raw type float32 was rejected.
C14_Witness ==
    /\ out.op = "w_init" /\ desc.complex_type \in Callables
    /\ desc.data_type = "float32" /\ ValidSize(desc.data_size)
    /\ out.raised = "ValueError" /\ w.fid = "unset"

\* C15: once close() has been called on a writer, by the caller, by __exit__
\* or by __del__, the writer has no open file again, and a write call made
\* afterwards changes no byte of the file, under either backend.
C15_ClosedIsTerminal ==
    closeCalled
    => /\ w.fid # "open"
       /\ out.op = "w_call" => (out.raised # "none" /\ ~out.changed)

\* The four bytes of the float32 band b of pixel (i, j) of the writer's raster.
BandBytes(self, f, i, j, b) ==
    LET a == ElementAddress(self.data_offset, self.data_size[2], 2,
                            itemsize("float32"), i, j, b)
    IN SubSeq(f, a + 1, a + itemsize("float32"))

\* C16: after a write of a complex array that fits, by a writer with
\* complex_type True, band 0 of pixel (start1 + i, start2 + j) holds the real
\* part of data[i, j] as a float32 and band 1 its imaginary part.
C16_AdjacentPairOnWrite ==
    (/\ out.op = "w_call" /\ w.complex_type = "True"
     /\ IsComplexDType(wreq.dtype) /\ Fits(w, wreq))
    => /\ out.raised = "none"
       /\ \A i \in 0..(wreq.rows - 1), j \in 0..(wreq.cols - 1) :
            LET x == DataOf(wreq).flat[i * wreq.cols + j + 1]
                re == CastScalar(x[1], "float32")
                im == CastScalar(x[2], "float32")
            IN /\ BandBytes(w, file, wreq.start[1] + i, wreq.start[2] + j, 0)
                    = [k \in 1..4 |-> <<re, k - 1>>]
               /\ BandBytes(w, file, wreq.start[1] + i, wreq.start[2] + j, 1)
                    = [k \in 1..4 |-> <<im, k - 1>>]

\* C17: the array a mapped read returns owns its data; when the caller
\* assigns to it, the assignment succeeds, no byte of the file changes, and
\* the same read made again returns the file's elements, not the value
\* assigned.
C17_MappedReadIsCopy ==
    /\ (out.op = "c_read" /\ c.memory_map = "map" /\ out.raised = "none")
       => out.owndata
    /\ out.op = "assign"
       => /\ out.raised = "none"
          /\ file = InitialFile(desc.data_offset + RasterBytes(desc))
          /\ LET again == BIPChipper_read_raw_fun(c, file, req[1], req[2])
             IN /\ again.shape = out.shape
                /\ again.flat[1] # out.flat[1]
                /\ \A k \in 2..Len(out.flat) : again.flat[k] = out.flat[k]

\* The caller has changed the array a mapped read returned.
C17_Witness ==
    /\ out.op = "assign" /\ out.raised = "none"
    /\ c.memory_map = "map" /\ c.life = "live"

\* ------------------------------------------------ symmetry of a chipper
Symmetries == {<<f1, f2, t>> : f1 \in BOOLEAN, f2 \in BOOLEAN, t \in BOOLEAN}

\* numpy.swapaxes(data, 1, 0) of an array of shape (n1, n2, nb)
Transpose(res) ==
    IF res.shape = <<>> THEN res
    ELSE LET n1 == res.shape[1]
             n2 == res.shape[2]
             nb == res.shape[3]
         IN [res EXCEPT !.shape = <<n2, n1, nb>>,
                        !.flat = [k \in 1..Len(res.flat) |->
                                    LET b == (k - 1) % nb
                                        i == ((k - 1) \div nb) % n1
                                        j == (k - 1) \div (nb * n1)
                                    IN res.flat[(i * n2 + j) * nb + b + 1]]]

\* The symmetry configuration applied to an array in the stored orientation:
\* the flip of axis 1, the flip of axis 2, then the transpose.
ApplySymmetry(sym, res) ==
    LET a1 == IF sym[1] THEN ReverseAxis(res, 1) ELSE res
        a2 == IF sym[2] THEN ReverseAxis(a1, 2) ELSE a1
    IN IF sym[3] THEN Transpose(a2) ELSE a2

\* An inverse that repeats the steps of the configuration in the same order.
InverseSymmetry_same_order(sym, res) ==
    LET a1 == IF sym[1] THEN ReverseAxis(res, 1) ELSE res
        a2 == IF sym[2] THEN ReverseAxis(a1, 2) ELSE a1
    IN IF sym[3] THEN Transpose(a2) ELSE a2

\* The inverse of the configuration, from the presented orientation back to
\* the stored one: the steps undone last to first.
InverseSymmetry(sym, res) ==
    LET a3 == IF sym[3] THEN Transpose(res) ELSE res
        a2 == IF sym[2] THEN ReverseAxis(a3, 2) ELSE a3
    IN IF sym[1] THEN ReverseAxis(a2, 1) ELSE a2

\* The band composer on read: with a complex_type other than False the bands
\* 2k and 2k+1 of a pixel become one sample, the pair of their elements.
BandCompose(self, res) ==
    IF self.complex_type = "False" \/ res.shape = <<>> THEN res
    ELSE [res EXCEPT !.shape = <<res.shape[1], res.shape[2], res.shape[3] \div 2>>,
                     !.flat = [k \in 1..(Len(res.flat) \div 2) |->
                                 <<res.flat[2 * k - 1], res.flat[2 * k]>>]]

\* BaseChipper.__call__: the raw read of the reordered ranges, the band
\* composition, and the stored result brought to the presented orientation;
\* the ranges are already reversed for the flips, the transpose is left.
BaseChipper_call(self, f, range1, range2) ==
    LET raw == BIPChipper_read_raw_fun(self, f, range1, range2)
        data == BandCompose(self, raw)
    IN IF raw.raised # "none" THEN raw
       ELSE IF self.symmetry[3] THEN Transpose(data) ELSE data

SymRanges == {<<0, -1, 1>>, <<0, -1, -1>>, <<1, -1, 1>>, <<0, 1, 1>>}

SymDescriptors ==
    {[data_size |-> s, data_type |-> tm[1], complex_type |-> tm[2],
      data_offset |-> o, symmetry |-> sym] :
        s \in Shapes, tm \in TypeModes, o \in {0, MaxOffset}, sym \in Symmetries}

SymInit ==
    /\ desc \in SymDescriptors
    /\ file = InitialFile(desc.data_offset + RasterBytes(desc))
    /\ InitObjects
    /\ req \in SymRanges \X SymRanges
    /\ wreq = [dtype |-> "uint8", rows |-> 1, cols |-> 1, start |-> <<0, 0>>]
    /\ wreq2 = wreq

\* The caller reads the window req of the presented array.
ChipperCall ==
    /\ c.life = "live"
    /\ LET r == BaseChipper_call(c, file, req[1], req[2])
       IN out' = [NoOut EXCEPT !.op = "c_call", !.raised = r.raised,
                               !.shape = r.shape, !.flat = r.flat,
                               !.owndata = r.owndata]
    /\ UNCHANGED <<desc, req, wreq, file, w, c, ncalls, warnings, errors, closes,
                   closeCalled, concVars>>

SymNext ==
    \/ ChipperConstruct
    \/ ChipperCall
    \/ ChipperDel

SymSpec == SymInit /\ [][SymNext]_vars

DownToZero(start, step) ==
    [k \in 1..((start \div (-step)) + 1) |-> start + (k - 1) * step]

UpToLast(start, step, L) ==
    [k \in 1..(((L - 1 - start) \div step) + 1) |-> start + (k - 1) * step]

NegativeSentinel(range) == range[2] = -1 /\ range[3] < 0
PositiveSentinel(range) == range[2] = -1 /\ range[3] > 0

\* The indices a caller's range names on an axis of length L, the sentinel
\* stop = -1 read as the specification reads it.
SentinelIndices(range, L) ==
    IF NegativeSentinel(range) THEN DownToZero(range[1], range[3])
    ELSE IF PositiveSentinel(range) THEN UpToLast(range[1], range[3], L)
    ELSE Requested(range, L)

\* The elements of the file at the rows and columns the window names.
SentinelRead ==
    MemmapTake(c, file, SentinelIndices(req[1], c.data_size[1]),
                        SentinelIndices(req[2], c.data_size[2]))

\* C19: a read whose range on an axis is (start, -1, step) with step < 0
\* returns, on either backend and for either axis, the elements at start,
\* start + step, ... down to index 0 when the steps reach it: index 0 is not
\* left out and -1 is not taken for the last index.
C19_NegativeStepSentinel ==
    (/\ out.op = "c_read" /\ Accepted.raised = "none"
     /\ (NegativeSentinel(req[1]) \/ NegativeSentinel(req[2])))
    => /\ out.raised = "none"
       /\ out.shape = SentinelRead.shape
       /\ out.flat = SentinelRead.flat

\* C20: a read whose range on an axis is (start, -1, step) with step > 0
\* returns the elements at start, start + step, ... up to the last index
\* L - 1 when the steps reach it: the stop is the length of the axis.
C20_PositiveStepSentinel ==
    (/\ out.op = "c_read" /\ Accepted.raised = "none"
     /\ (PositiveSentinel(req[1]) \/ PositiveSentinel(req[2])))
    => /\ out.raised = "none"
       /\ out.shape = SentinelRead.shape
       /\ out.flat = SentinelRead.flat

\* ------------------------------------------- the manual read, step by step
\* get_row_location of _read_file (lines 122-129): the byte a seek goes to
\* for row rr and column cc; stride is element_size * self._shape[0].
get_row_location(self, rr, cc) ==
    LET element_size == itemsize(self.data_type) * self.bands
        stride == element_size * self.shape[1]
    IN self.data_offset + rr * stride + cc * element_size

\* The indices a range of the backend names on an axis of length L, as the
\* slices of _read_memory_map take them.
SliceIndices(range, L) ==
    IF range[2] = -1 /\ range[3] < 0
    THEN PySlice(range[1], FALSE, 0, range[3], L)
    ELSE PySlice(range[1], TRUE, range[2], range[3], L)

\* The seeks the loop of _read_file makes (lines 139-141), in order: none
\* when line 132 has raised.
BIPChipper_read_file_seeks(self, range1, range2) ==
    LET dim1array == numpy_arange(range1)
        dim2array == numpy_arange(range2)
        col_begin == IF range2[3] > 0 THEN dim2array.val[1]
                     ELSE dim2array.val[Len(dim2array.val)]
    IN IF dim1array.raised # "none" \/ dim2array.raised # "none" THEN <<>>
       ELSE [i \in 1..Len(dim1array.val) |->
               get_row_location(self, dim1array.val[i], col_begin)]

\* The first column of a column range: the least index it names.
FirstCol(range2, L) ==
    LET I == SliceIndices(range2, L)
    IN IF range2[3] > 0 THEN I[1] ELSE I[Len(I)]

\* C21: a read on the manual backend seeks, for every row r the window names,
\* to data_offset + (r * C + first_col) * element_size, C being the number of
\* pixels of a stored row; and the place computed for pixel (r, k) of the
\* raster is data_offset + (r * C + k) * element_size, square raster or not.
C21_ManualReadAddressing ==
    (/\ out.op = "c_read" /\ c.fid = "open" /\ Accepted.raised = "none"
     /\ SliceIndices(Accepted.range2, c.shape[2]) # <<>>)
    => LET rows == SliceIndices(Accepted.range1, c.shape[1])
           isz == itemsize(c.data_type)
       IN /\ BIPChipper_read_file_seeks(c, Accepted.range1, Accepted.range2)
               = [i \in 1..Len(rows) |->
                    ElementAddress(c.data_offset, c.shape[2], c.bands, isz, rows[i],
                                   FirstCol(Accepted.range2, c.shape[2]), 0)]
          /\ \A r \in 0..(c.shape[1] - 1), k \in 0..(c.shape[2] - 1) :
               get_row_location(c, r, k)
                 = ElementAddress(c.data_offset, c.shape[2], c.bands, isz, r, k, 0)

Abs(n) == IF n < 0 THEN -n ELSE n

\* entries_per_row of _read_file (line 130): abs(range1[1] - range1[0]).
entries_per_row(range1, range2) == Abs(range1[2] - range1[1])

\* The numbers of elements the numpy.fromfile calls of the loop of _read_file
\* ask for (line 143), in order: none when line 132 has raised.
BIPChipper_read_file_runs(self, range1, range2) ==
    LET dim1array == numpy_arange(range1)
        dim2array == numpy_arange(range2)
    IN IF dim1array.raised # "none" \/ dim2array.raised # "none" THEN <<>>
       ELSE [i \in 1..Len(dim1array.val) |->
               entries_per_row(range1, range2) * self.bands]

\* C22: a read on the manual backend reads, for every row the window names,
\* one run of |stop2 - start2| pixels with all their bands, whatever the row
\* range is, and returns one entry for every column the window names, with
\* all its bands.
C22_ManualReadRunLength ==
    (out.op = "c_read" /\ c.fid = "open" /\ Accepted.raised = "none")
    => LET rows == SliceIndices(Accepted.range1, c.shape[1])
           cols == SliceIndices(Accepted.range2, c.shape[2])
           span == Abs(Accepted.range2[2] - Accepted.range2[1])
       IN /\ entries_per_row(Accepted.range1, Accepted.range2) = span
          /\ BIPChipper_read_file_runs(c, Accepted.range1, Accepted.range2)
               = [i \in 1..Len(rows) |-> span * c.bands]
          /\ out.raised = "none"
          /\ out.shape = <<Len(rows), Len(cols), c.bands>>

\* --------------------------------------------- the two paths of a write
\* The file before the first write.
FileBefore == InitialFile(desc.data_offset + RasterBytes(desc))

\* The assignment of line 297 made on the file before the first write, with
\* the raw array and the window of the call wreq.
MappedAssignment ==
    MemmapAssign(w, FileBefore, wreq.start[1], wreq.start[1] + wreq.rows,
                 wreq.start[2], wreq.start[2] + wreq.cols, RawOf(w, DataOf(wreq)))

\* C23: the first write of a writer, of an array of the right type at a
\* window within the raster, leaves on either backend the file that the
\* assignment memory_map[start1:stop1, start2:stop2, :] = data leaves, for
\* every shape of the raster and every such window.
C23_WriterBackendEquivalence ==
    (/\ out.op = "w_call" /\ ncalls = 1
     /\ Fits(w, wreq) /\ ~TypeMismatch(w, DataOf(wreq)))
    => /\ MappedAssignment.raised = "none"
       /\ out.raised = "none"
       /\ file = MappedAssignment.file

\* ------------------------------------- one write, operation by operation
\* The arrays of at most the raster's size a caller writes at a place of the
\* raster.
StepRequests(d) ==
    {rq \in [dtype : {"uint8", "complex64"}, rows : 1..ConcRows, cols : 1..ConcCols,
             start : (0..(ConcRows - 1)) \X (0..(ConcCols - 1))] :
        /\ rq.rows <= d.data_size[1] /\ rq.cols <= d.data_size[2]
        /\ rq.start[1] < d.data_size[1] /\ rq.start[2] < d.data_size[2]}

StepInit ==
    /\ desc \in ConcDescriptors
    /\ file = InitialFile(desc.data_offset + RasterBytes(desc))
    /\ InitObjects
    /\ req = FullWindow(desc)
    /\ wreq \in StepRequests(desc)
    /\ wreq2 = wreq

StepNext ==
    \/ WriterConstruct
    \/ FirstBegin
    \/ FirstStep

StepSpec == StepInit /\ [][StepNext]_vars

\* How many operations of a queue are of the kind `op`.
CountOps(q, op) == Cardinality({k \in 1..Len(q) : q[k].op = op})

\* C24: a write on the manual backend starts with its one absolute seek; it
\* goes row by row with one write per row and one relative seek less than
\* rows, or makes the one write of the block and no relative seek; whatever
\* is left to do ends with a write, and the operation that ends the call is
\* a write.
C24_NoTrailingSeek ==
    /\ [](/\ (out.op = "w_begin" /\ ops[1].state = "running" /\ w.memory_map = "none")
             => LET q == ops[1].queue
                IN /\ q[1].op = "seek"
                   /\ CountOps(q, "seek") = 1
                   /\ \/ /\ CountOps(q, "tofile") = wreq.rows
                         /\ CountOps(q, "seek_cur") = wreq.rows - 1
                      \/ /\ q[2] = [op |-> "tofile", n |-> -1]
                         /\ Len(q) = 2
          /\ (ops[1].state = "running" /\ w.memory_map = "none")
             => ops[1].queue[Len(ops[1].queue)].op = "tofile")
    /\ [][(ops[1].state = "running" /\ ops'[1].state = "done" /\ w.memory_map = "none")
          => Head(ops[1].queue).op = "tofile"]_vars

\* A manual writer has written two rows of a raster of three, row by row.
C24_Witness ==
    /\ ops[1].state = "done" /\ w.fid = "open"
    /\ wreq.rows = 2 /\ desc.data_size[1] = 3

\* The writer's complex_type is a callable whose output has another type
\* than data_type.
WrongCallable(ct, dt) == IsCallable(ct) /\ CallableOutDType(ct) # dt

\* C25: a callable complex_type whose output is of another type than
\* data_type is accepted by the constructor whenever a storage handle can be
\* had; every write call of that writer raises ValueError with no byte
\* written and no byte of the file changed; a callable with the right output
\* type is not rejected on a write that fits.
C25_TransformCheckedAtUse ==
    /\ (/\ out.op = "w_init" /\ WrongCallable(desc.complex_type, desc.data_type)
        /\ ~(out.mmapFails /\ out.openFails))
       => (out.raised = "none" /\ w.life = "live")
    /\ (out.op = "w_call" /\ WrongCallable(w.complex_type, w.data_type))
       => (out.raised = "ValueError" /\ out.nbytes = 0 /\ ~out.changed)
    /\ (/\ out.op = "w_call" /\ IsCallable(w.complex_type)
        /\ ~WrongCallable(w.complex_type, w.data_type) /\ Fits(w, wreq))
       => out.raised = "none"

\* The first write of a mapped writer whose callable returns float32 for an
\* int16 raster was rejected.
C25_Witness ==
    /\ out.op = "w_call" /\ ncalls = 1 /\ w.memory_map = "map"
    /\ w.complex_type = "to_float32" /\ w.data_type = "int16"
    /\ out.raised = "ValueError"

\* ------------------------------------------------ the bands of a chipper
MaxBands == 2

\* A raster descriptor with the number of bands the caller passes as bands_ip.
BandDescriptors ==
    {[data_size |-> s, data_type |-> tm[1], complex_type |-> tm[2],
      data_offset |-> o, symmetry |-> NoSymmetry, bands_ip |-> b] :
        s \in Shapes, tm \in TypeModes, o \in {0, MaxOffset}, b \in 1..MaxBands}

\* The file holds 2 * bands_ip elements for every pixel: enough for the
\* mapping of either complex mode.
BandInit ==
    /\ desc \in BandDescriptors
    /\ file = InitialFile(desc.data_offset
                          + desc.data_size[1] * desc.data_size[2]
                            * itemsize(desc.data_type) * 2 * desc.bands_ip)
    /\ InitObjects
    /\ req \in SymRanges \X SymRanges
    /\ wreq = [dtype |-> "uint8", rows |-> 1, cols |-> 1, start |-> <<0, 0>>]
    /\ wreq2 = wreq

\* BIPChipper(file_name, data_type, data_size, complex_type=..., bands_ip=...)
ChipperConstructBands ==
    /\ c.life = "absent"
    /\ \E access \in {"ok", "missing", "unreadable"},
          mmapFails \in BOOLEAN, openFails \in BOOLEAN :
         LET r == BIPChipper_init(desc.data_type, desc.data_size, desc.symmetry,
                                  desc.complex_type, desc.data_offset, desc.bands_ip,
                                  access, mmapFails, openFails)
         IN /\ c' = r.obj
            /\ warnings' = [warnings EXCEPT !["c"] = @ + r.warned]
            /\ out' = [NoOut EXCEPT !.op = "c_init", !.raised = r.raised,
                                    !.mmapFails = mmapFails /\ access = "ok",
                                    !.openFails = openFails \/ access # "ok",
                                    !.access = access]
    /\ UNCHANGED <<desc, req, wreq, file, w, ncalls, errors, closes, closeCalled,
                   concVars>>

BandNext ==
    \/ ChipperConstructBands
    \/ ChipperRead
    \/ ChipperDel

BandSpec == BandInit /\ [][BandNext]_vars

\* C26: the number of bands of a constructed chipper, which is the last
\* dimension of its raw shape, is 2 * bands_ip with complex_type True and
\* bands_ip with complex_type False, and no read and no __del__ changes the
\* number or the shape.
C26_BandCount ==
    /\ [](c.life \in {"live", "deleted"}
          => /\ c.shape[Len(c.shape)] = c.bands
             /\ c.complex_type = "True" => c.bands = 2 * desc.bands_ip
             /\ c.complex_type = "False" => c.bands = desc.bands_ip)
    /\ [][c.life = "live" => (c'.bands = c.bands /\ c'.shape = c.shape)]_vars

\* A mapped chipper of two complex bands has read its four raw bands.
C26_Witness ==
    /\ out.op = "c_read" /\ out.raised = "none" /\ c.memory_map = "map"
    /\ c.complex_type = "True" /\ desc.bands_ip = 2
    /\ c.bands = 4 /\ out.shape[3] = 4

\* -------------------------------------- the stored shape of a chipper
\* The shape of the stored array of a chipper whose presented array has the
\* size data_size: the two sizes exchanged when the symmetry transposes.
RawShape(self) ==
    IF self.symmetry[3]
    THEN <<self.data_size[2], self.data_size[1], self.bands>>
    ELSE <<self.data_size[1], self.data_size[2], self.bands>>

\* C27: the shape a chipper maps the file with, and steps through the file
\* with on the manual backend, is the stored shape: (d2, d1, bands) for a
\* presented size (d1, d2) under a symmetry that transposes.
C27_MappedShapeIsRaw ==
    (c.life = "live" /\ c.symmetry[3])
    => /\ c.shape = RawShape(c)
       /\ get_row_location(c, 1, 0) - get_row_location(c, 0, 0)
            = itemsize(c.data_type) * c.bands * RawShape(c)[2]

\* ------------------------------- one writer shared by two threads
\* A second thread calls the writer the first thread is calling.
ThreadBegin ==
    /\ w.life = "live"
    /\ ops[2].state = "idle"
    /\ ops' = [ops EXCEPT ![2] = BIPWriter_call_begin(w, wreq2)]
    /\ out' = [NoOut EXCEPT !.op = "t2_begin"]
    /\ UNCHANGED <<desc, req, wreq, file, w, c, ncalls, warnings, errors, closes,
                   closeCalled, w2, wreq2>>

\* The second thread's _call makes its next seek or write, on the file
\* object of the one writer.
ThreadStep ==
    /\ ops[2].state = "running"
    /\ LET r == StepOf(w, ops[2], wreq2)
       IN /\ file' = r.file
          /\ w' = [w EXCEPT !.pos = r.pos]
          /\ ops' = [ops EXCEPT ![2] = AfterStep(ops[2], r.raised)]
          /\ out' = [NoOut EXCEPT !.op = "t2_step", !.raised = r.raised]
    /\ UNCHANGED <<desc, req, wreq, c, ncalls, warnings, errors, closes,
                   closeCalled, w2, wreq2>>

SharedNext ==
    \/ WriterConstruct
    \/ FirstBegin
    \/ FirstStep
    \/ ThreadBegin
    \/ ThreadStep

SharedSpec == ConcInit /\ [][SharedNext]_vars

\* The operations of the call of rq, all of them, and how many of them the
\* call o has made.
AllSteps(self, rq) == BIPWriter_call_begin(self, rq).queue

Progress(self, o, rq) ==
    IF o.state = "running" THEN Len(AllSteps(self, rq)) - Len(o.queue)
    ELSE IF o.state = "done" THEN Len(AllSteps(self, rq))
    ELSE 0

\* Where the file position is by the arithmetic of _call (lines 301-318)
\* when the call of rq has made k operations, k >= 1: at the place it sought
\* first, past what it has written and skipped since.
IntendedPos(self, rq, k) ==
    LET element_size == IF Len(self.shape) = 3
                        THEN itemsize(self.data_type) * self.shape[3]
                        ELSE itemsize(self.data_type)
        stride == element_size * self.data_size[1]
        p0 == self.data_offset + stride * rq.start[1] + element_size * rq.start[2]
        skip == element_size * (self.data_size[1] - rq.rows)
    IN IF rq.start[1] = 0 /\ rq.rows = self.data_size[1]
       THEN p0 + (k - 1) * rq.rows * rq.cols * element_size
       ELSE p0 + (k \div 2) * rq.cols * element_size + ((k - 1) \div 2) * skip

\* The call of thread i is not at the place its own seeks and writes lead to.
Misplaced(i, rq) ==
    /\ w.memory_map = "none"
    /\ Progress(w, ops[i], rq) >= 1
    /\ w.pos # IntendedPos(w, rq, Progress(w, ops[i], rq))

\* C28: the calls of two threads on one manual writer share its file
\* position: a call that is alone on the writer is, after each of its
\* operations, at the place it sought; a call is at another place only when
\* the call of the other thread has come between its operations, and then it
\* can write there.
C28_SharedInstanceUnsafe ==
    /\ Misplaced(1, wreq) => ops[2].state # "idle"
    /\ Misplaced(2, wreq2) => ops[1].state # "idle"

\* The first thread has just written a row at a place it did not seek: the
\* second thread moved the file position after the first thread's seek.
C28_Witness ==
    /\ out.op = "w_step" /\ out.raised = "none"
    /\ Misplaced(1, wreq)
    /\ AllSteps(w, wreq)[Progress(w, ops[1], wreq)].op = "tofile"
    /\ ops[2].state = "running"

\* ------------------------------------------------- the frame of a write
\* Byte a (from 1) of the file is a byte of a pixel of the window of rq in
\* the raster of the writer.
InWindow(self, rq, a) ==
    LET nb == IF self.complex_type = "False" THEN 1 ELSE 2
        psz == nb * itemsize(self.data_type)
        rel == (a - 1) - self.data_offset
        pix == rel \div psz
        i == pix \div self.data_size[2]
        j == pix % self.data_size[2]
    IN /\ rel >= 0
       /\ i >= rq.start[1] /\ i < rq.start[1] + rq.rows
       /\ j >= rq.start[2] /\ j < rq.start[2] + rq.cols

\* C29: after the first write of a writer, when it raised nothing and its
\* window is within the raster, the file has the length it had, and every
\* byte that is not a byte of a pixel of the window, the bytes before
\* data_offset among them, is the byte it was, on either backend.
C29_WriteFrame ==
    (/\ out.op = "w_call" /\ ncalls = 1
     /\ out.raised = "none" /\ Fits(w, wreq))
    => /\ Len(file) = Len(FileBefore)
       /\ \A a \in 1..Len(FileBefore) :
            ~InWindow(w, wreq, a) => file[a] = FileBefore[a]

\* ------------------------------------ calls of one instance in sequence
\* One writer that writes its array MaxCalls times, or one chipper that reads
\* its window again and again.
SeqNext ==
    \/ WriterConstruct
    \/ WriterCall
    \/ ChipperConstruct
    \/ ChipperRead

SeqSpec == WriteInit /\ [][SeqNext]_vars

\* The file positions an instance can have been left at.
Positions == 0..Len(file)

\* The write of wreq by the writer as it would be had its file position been
\* left at p.
WriteFrom(p, f) == BIPWriter_call([w EXCEPT !.pos = p], f, DataOf(wreq), wreq.start)

\* C30: what a write does to the file and what it raises, and what a read
\* returns, are the same from whatever file position the instance was left
\* at; and the second of two writes of a writer leaves the file that a
\* writer at position 0 leaves when it makes the write on the file the first
\* write left.
C30_HistoryIndependence ==
    /\ w.life = "live"
       => \A p \in Positions :
            /\ WriteFrom(p, file).file = WriteFrom(w.pos, file).file
            /\ WriteFrom(p, file).raised = WriteFrom(w.pos, file).raised
    /\ (out.op = "w_call" /\ ncalls = 2)
       => LET once == WriteFrom(0, FileBefore)
              twice == WriteFrom(0, once.file)
          IN file = twice.file /\ out.raised = twice.raised
    /\ c.life = "live"
       => \A p \in Positions :
            BIPChipper_read_raw_fun([c EXCEPT !.pos = p], file, req[1], req[2])
              = BIPChipper_read_raw_fun(c, file, req[1], req[2])
    /\ out.op = "c_read"
       => ReadOutcome = BIPChipper_read_raw_fun([c EXCEPT !.pos = 0], file,
                                                req[1], req[2])

\* A manual writer has made its second write, from the position the first
\* write left past the start of the file.
C30_Witness ==
    /\ out.op = "w_call" /\ ncalls = 2 /\ w.fid = "open"
    /\ out.raised = "none" /\ w.pos > 0 /\ file # FileBefore
    /\ wreq.rows = 2

====
